---------------------------- MODULE Spec2Model ----------------------------
(***************************************************************************)
(* A model of the sorting library: Smoothsort (implicit Leonardo heap),    *)
(* BinaryQuicksort (MSD radix partitioning) and CartesianTreeSort.         *)
(*                                                                         *)
(* Positions are offsets from `begin` (std::distance(begin, p)), so the    *)
(* element at position p of the range is a[p + 1].                         *)
(***************************************************************************)
EXTENDS Integers, Sequences, FiniteSets

VARIABLES
    alg,        \* which of the three public functions was called
    pc,         \* position of the call
    input,      \* the range as it was when the function was called
    a,          \* the range [begin, end)
    shape,      \* Smoothsort: the HeapShape local
    itr,        \* Smoothsort / CartesianTreeSort: the loop iterator (a position)
    cmps,       \* number of comparator invocations so far
    fault,      \* TRUE once the code read outside [begin, end) or scanned an empty bitvector
    lastOp,     \* the last completed operation of the driver
    nAdds,      \* number of completed LeonardoHeapAdd calls
    nRemoves,   \* number of completed LeonardoHeapRemove calls
    rectified,  \* history: the trees whose LeonardoHeapAdd ran LeonardoHeapRectify
    callRoot,   \* direct call of a tree helper: the argument root (a position)
    callSize,   \* direct call of a tree helper: the argument size (an order)
    isSigned,   \* BinaryQuicksort: std::numeric_limits<T>::is_signed
    tree,       \* CartesianTreeSort: the Cartesian tree (root, left, right)
    pq          \* CartesianTreeSort: the nodes held by the priority queue

vars == <<alg, pc, input, a, shape, itr, cmps, fault, lastOp, nAdds, nRemoves,
          rectified, callRoot, callSize, isSigned, tree, pq>>

---------------------------------------------------------------------------
(* Bounds of the model. *)

\* Longest range given to Smoothsort; every order pattern of every length up to it is tried.
MaxLen == 6

\* Longest range given to BinaryQuicksort; every range of kNumBits-bit values up to it is tried.
MaxLenBQ == 3

\* Longest range given to CartesianTreeSort; every order pattern up to it is tried.
MaxLenCT == 5

\* Longest already-sorted / reverse-sorted range given to Smoothsort.
MaxSortedLen == 24

\* Longest range given to Smoothsort under the specification with fairness.
MaxLenTotal == 4

\* Longest range a direct call of LargerChild or RebalanceSingleHeap works in;
\* every order pattern, every root position and every order that fits is tried.
MaxLenTree == 5

---------------------------------------------------------------------------
(* Generic helpers. *)

At(arr, p) == arr[p + 1]

Swap(arr, p, q) ==
    [arr EXCEPT ![p + 1] = arr[q + 1], ![q + 1] = arr[p + 1]]

\* comp(x, y) of the no-comparator overload: std::less.
Comp(x, y) == x < y

MaxOf(s) == IF Len(s) = 0 THEN 0 ELSE CHOOSE m \in {s[i] : i \in 1..Len(s)} :
                                        \A i \in 1..Len(s) : s[i] <= m

\* All sequences of length n up to order isomorphism: the values used are
\* exactly 1..k for some k (every weak ordering of n elements, ties included).
RECURSIVE WeakOrders(_)
WeakOrders(n) ==
    IF n = 0 THEN {<<>>}
    ELSE UNION {
        LET m == MaxOf(s) IN
            {Append(s, v) : v \in 1..m}
            \cup {Append([i \in 1..Len(s) |-> IF s[i] >= v THEN s[i] + 1 ELSE s[i]], v)
                    : v \in 1..(m + 1)}
        : s \in WeakOrders(n - 1) }

Ascending(n) == [i \in 1..n |-> i]
Descending(n) == [i \in 1..n |-> n + 1 - i]

\* A range of length 13 in no particular order.
Scrambled13 == <<7, 13, 2, 9, 4, 11, 1, 6, 12, 3, 10, 5, 8>>

SmoothsortInputs ==
    UNION {WeakOrders(n) : n \in 0..MaxLen}
    \cup {Ascending(n) : n \in 0..MaxSortedLen}
    \cup {Descending(n) : n \in 0..MaxSortedLen}
    \cup {Scrambled13}

\* The number of positions holding value v.
Count(arr, v) == Cardinality({i \in 1..Len(arr) : arr[i] = v})

IsPermutation(x, y) ==
    /\ Len(x) = Len(y)
    /\ \A i \in 1..Len(x) : Count(x, x[i]) = Count(y, x[i])

\* comp(arr[i+1], arr[i]) is false for every adjacent pair.
IsSorted(arr) == \A i \in 1..(Len(arr) - 1) : ~Comp(arr[i + 1], arr[i])

---------------------------------------------------------------------------
(* Smoothsort: the Leonardo heap engine. *)

kNumLeonardoNumbers == 46

\* The table of Leonardo numbers.  The last two entries of the source table
\* (2269806339 and 3672623805) exceed the integers of the model checker and are
\* left out; no range of the model reaches an order above 43.
kLeonardoNumbers ==
    << 1, 1, 3, 5, 9, 15, 25, 41, 67, 109, 177, 287, 465, 753,
       1219, 1973, 3193, 5167, 8361, 13529, 21891, 35421, 57313, 92735,
       150049, 242785, 392835, 635621, 1028457, 1664079, 2692537,
       4356617, 7049155, 11405773, 18454929, 29860703, 48315633, 78176337,
       126491971, 204668309, 331160281, 535828591, 866988873, 1402817465 >>

\* kLeonardoNumbers[k] of the source (0-based).
L(k) == kLeonardoNumbers[k + 1]

\* std::bitset<kNumLeonardoNumbers> as the set of the positions of its set bits.
EmptyTrees == {}
ShiftRight(trees, k) == {b - k : b \in {x \in trees : x >= k}}
ShiftLeft(trees, k) == {b + k : b \in {x \in trees : x + k < kNumLeonardoNumbers}}
SetBit(trees, b) == trees \cup {b}
ClearBit(trees, b) == trees \ {b}
Bit(trees, b) == b \in trees
AnyBit(trees) == trees # {}

\* HeapShape shape; shape.smallestTreeSize = 0;
EmptyShape == [trees |-> EmptyTrees, smallestTreeSize |-> 0]

SecondChild(root) == root - 1

FirstChild(root, size) == SecondChild(root) - L(size - 2)

\* A slip in LargerChild: the test is !comp(*second, *first), which gives the
\* second child when the two children compare equal.
LargerChildSecondOnTie(arr, root, size) ==
    LET first == FirstChild(root, size)
        second == SecondChild(root)
    IN  IF ~Comp(At(arr, second), At(arr, first)) THEN second ELSE first

\* A slip in LargerChild: the branches of the conditional are exchanged.
LargerChildReturnsSmaller(arr, root, size) ==
    LET first == FirstChild(root, size)
        second == SecondChild(root)
    IN  IF Comp(At(arr, first), At(arr, second)) THEN first ELSE second

LargerChild(arr, root, size) ==
    LET first == FirstChild(root, size)
        second == SecondChild(root)
    IN  IF Comp(At(arr, first), At(arr, second)) THEN second ELSE first

\* A slip in RebalanceSingleHeap: the orders of the two children are exchanged.
RECURSIVE RebalanceSingleHeapChildSizesExchanged(_, _, _)
RebalanceSingleHeapChildSizesExchanged(st, root, size) ==
    IF size <= 1 THEN st
    ELSE
        LET first == FirstChild(root, size)
            second == SecondChild(root)
            secondLarger == Comp(At(st.a, first), At(st.a, second))
            largerChild == IF secondLarger THEN second ELSE first
            childSize == IF secondLarger THEN size - 1 ELSE size - 2
        IN  IF ~Comp(At(st.a, root), At(st.a, largerChild))
            THEN [st EXCEPT !.cmps = @ + 2]
            ELSE RebalanceSingleHeapChildSizesExchanged(
                    [st EXCEPT !.a = Swap(@, root, largerChild), !.cmps = @ + 2],
                    largerChild, childSize)

\* The engine's operators thread st = [a, cmps, fault]: the range, the
\* comparator invocations so far, and whether an access left the range.
RECURSIVE RebalanceSingleHeap(_, _, _)
RebalanceSingleHeap(st, root, size) ==
    IF size <= 1 THEN st
    ELSE
        LET first == FirstChild(root, size)
            second == SecondChild(root)
            secondLarger == Comp(At(st.a, first), At(st.a, second))
            largerChild == IF secondLarger THEN second ELSE first
            childSize == IF secondLarger THEN size - 2 ELSE size - 1
        IN  IF ~Comp(At(st.a, root), At(st.a, largerChild))
            THEN [st EXCEPT !.cmps = @ + 2]
            ELSE RebalanceSingleHeap(
                    [st EXCEPT !.a = Swap(@, root, largerChild), !.cmps = @ + 2],
                    largerChild, childSize)

\* do { shape.trees >>= 1; ++shape.smallestTreeSize; } while (!shape.trees[0]);
\* With no bit left the loop of the source never ends: reported as found = FALSE.
RECURSIVE ScanToPriorTree(_)
ScanToPriorTree(sh) ==
    LET next == [trees |-> ShiftRight(sh.trees, 1),
                 smallestTreeSize |-> sh.smallestTreeSize + 1]
    IN  IF ~AnyBit(next.trees) THEN [shape |-> next, found |-> FALSE]
        ELSE IF Bit(next.trees, 0) THEN [shape |-> next, found |-> TRUE]
        ELSE ScanToPriorTree(next)

\* A slip in the stop test of the walk: the negation is lost.
WalkStopsNegationLost(arr, toCompare, priorHeap) ==
    Comp(At(arr, toCompare), At(arr, priorHeap))

\* The stop test of the walk, !comp(*toCompare, *priorHeap): the root of the
\* tree to the left is not smaller than the value compared against.
WalkStops(arr, toCompare, priorHeap) ==
    ~Comp(At(arr, toCompare), At(arr, priorHeap))

\* A slip in the test for the first heap: the - 1 is left out.
IsFirstHeapOffByOne(pos, lastHeapSize) == pos = L(lastHeapSize)

\* size_t(std::distance(begin, itr)) == kLeonardoNumbers[lastHeapSize] - 1:
\* the heap rooted at itr is the very first one of the range.
IsFirstHeap(pos, lastHeapSize) == pos = L(lastHeapSize) - 1

\* The while (true) loop of LeonardoHeapRectify from the iteration at itr on,
\* followed by the final RebalanceSingleHeap(itr, lastHeapSize, comp).
RECURSIVE RectifyWalk(_, _, _)
RectifyWalk(st, pos, sh) ==
    LET lastHeapSize == sh.smallestTreeSize IN
    IF IsFirstHeap(pos, lastHeapSize)
    THEN RebalanceSingleHeap(st, pos, lastHeapSize)
    ELSE
        LET hasChildren == sh.smallestTreeSize > 1
            largeChild == LargerChild(st.a, pos, sh.smallestTreeSize)
            toCompare == IF hasChildren /\ Comp(At(st.a, pos), At(st.a, largeChild))
                         THEN largeChild ELSE pos
            used == IF hasChildren THEN 2 ELSE 0
            priorHeap == pos - L(lastHeapSize)
        IN  IF priorHeap < 0
            THEN [st EXCEPT !.cmps = @ + used, !.fault = TRUE]
            ELSE IF WalkStops(st.a, toCompare, priorHeap)
            THEN RebalanceSingleHeap([st EXCEPT !.cmps = @ + used + 1],
                                     pos, lastHeapSize)
            ELSE
                LET scan == ScanToPriorTree(sh)
                    swapped == [st EXCEPT !.a = Swap(@, pos, priorHeap),
                                          !.cmps = @ + used + 1]
                IN  IF ~scan.found
                    THEN [swapped EXCEPT !.fault = TRUE]
                    ELSE RectifyWalk(swapped, priorHeap, scan.shape)

\* A slip in LeonardoHeapRectify: the last tree is made a heap, the walk over the
\* roots to its left is left out.
LeonardoHeapRectifyLastTreeOnly(st, end, sh) ==
    RebalanceSingleHeap(st, end - 1, sh.smallestTreeSize)

\* LeonardoHeapRectify(begin, end, shape, comp): shape is passed by value.
LeonardoHeapRectify(st, end, sh) == RectifyWalk(st, end - 1, sh)

\* A slip in case 0 of the shape update: the first tree gets order 0.
AddShapeFirstTreeOrderZero(sh) ==
    IF ~Bit(sh.trees, 0)
    THEN [trees |-> SetBit(sh.trees, 0), smallestTreeSize |-> 0]
    ELSE IF Bit(sh.trees, 1) /\ Bit(sh.trees, 0)
    THEN [trees |-> SetBit(ShiftRight(sh.trees, 2), 0),
          smallestTreeSize |-> sh.smallestTreeSize + 2]
    ELSE IF sh.smallestTreeSize = 1
    THEN [trees |-> SetBit(ShiftLeft(sh.trees, 1), 0), smallestTreeSize |-> 0]
    ELSE [trees |-> SetBit(IF sh.smallestTreeSize = 0 THEN EmptyTrees
                           ELSE ShiftLeft(sh.trees, sh.smallestTreeSize - 1), 0),
          smallestTreeSize |-> 1]

\* A slip in case 1 of the shape update: the order of the merged tree is one
\* too low (smallestTreeSize += 1).
AddShapeMergeOrderPlusOne(sh) ==
    IF ~Bit(sh.trees, 0)
    THEN [trees |-> SetBit(sh.trees, 0), smallestTreeSize |-> 1]
    ELSE IF Bit(sh.trees, 1) /\ Bit(sh.trees, 0)
    THEN [trees |-> SetBit(ShiftRight(sh.trees, 2), 0),
          smallestTreeSize |-> sh.smallestTreeSize + 1]
    ELSE IF sh.smallestTreeSize = 1
    THEN [trees |-> SetBit(ShiftLeft(sh.trees, 1), 0), smallestTreeSize |-> 0]
    ELSE [trees |-> SetBit(IF sh.smallestTreeSize = 0 THEN EmptyTrees
                           ELSE ShiftLeft(sh.trees, sh.smallestTreeSize - 1), 0),
          smallestTreeSize |-> 1]

\* A slip in case 2 of the shape update: the test is smallestTreeSize >= 1, so
\* an order-0 tree is put after a smallest tree of any order from 1 up.
AddShapeOrderZeroAfterAnyTree(sh) ==
    IF ~Bit(sh.trees, 0)
    THEN [trees |-> SetBit(sh.trees, 0), smallestTreeSize |-> 1]
    ELSE IF Bit(sh.trees, 1) /\ Bit(sh.trees, 0)
    THEN [trees |-> SetBit(ShiftRight(sh.trees, 2), 0),
          smallestTreeSize |-> sh.smallestTreeSize + 2]
    ELSE IF sh.smallestTreeSize >= 1
    THEN [trees |-> SetBit(ShiftLeft(sh.trees, 1), 0), smallestTreeSize |-> 0]
    ELSE [trees |-> SetBit(IF sh.smallestTreeSize = 0 THEN EmptyTrees
                           ELSE ShiftLeft(sh.trees, sh.smallestTreeSize - 1), 0),
          smallestTreeSize |-> 1]

\* A slip in case 2 of the shape update: the shift that makes room for the
\* order-0 bit (trees <<= 1) is left out.
AddShapeOrderZeroWithoutShift(sh) ==
    IF ~Bit(sh.trees, 0)
    THEN [trees |-> SetBit(sh.trees, 0), smallestTreeSize |-> 1]
    ELSE IF Bit(sh.trees, 1) /\ Bit(sh.trees, 0)
    THEN [trees |-> SetBit(ShiftRight(sh.trees, 2), 0),
          smallestTreeSize |-> sh.smallestTreeSize + 2]
    ELSE IF sh.smallestTreeSize = 1
    THEN [trees |-> SetBit(sh.trees, 0), smallestTreeSize |-> 0]
    ELSE [trees |-> SetBit(IF sh.smallestTreeSize = 0 THEN EmptyTrees
                           ELSE ShiftLeft(sh.trees, sh.smallestTreeSize - 1), 0),
          smallestTreeSize |-> 1]

\* The shape after the four-case update of LeonardoHeapAdd.
AddShape(sh) ==
    IF ~Bit(sh.trees, 0)
    THEN [trees |-> SetBit(sh.trees, 0), smallestTreeSize |-> 1]
    ELSE IF Bit(sh.trees, 1) /\ Bit(sh.trees, 0)
    THEN [trees |-> SetBit(ShiftRight(sh.trees, 2), 0),
          smallestTreeSize |-> sh.smallestTreeSize + 2]
    ELSE IF sh.smallestTreeSize = 1
    THEN [trees |-> SetBit(ShiftLeft(sh.trees, 1), 0), smallestTreeSize |-> 0]
    ELSE \* a shift by smallestTreeSize - 1 of size_t 0 - 1 clears every bit
         [trees |-> SetBit(IF sh.smallestTreeSize = 0 THEN EmptyTrees
                           ELSE ShiftLeft(sh.trees, sh.smallestTreeSize - 1), 0),
          smallestTreeSize |-> 1]

\* Slips in the finality test: no tree is ever taken as final / every tree is /
\* the order >= 2 case forgets the one extra element.
IsLastNever(sh, end, heapEnd) == FALSE

IsLastAlways(sh, end, heapEnd) == TRUE

IsLastNoExtraElement(sh, end, heapEnd) ==
    IF sh.smallestTreeSize = 0 THEN end + 1 = heapEnd
    ELSE IF sh.smallestTreeSize = 1
    THEN end + 1 = heapEnd \/ (end + 2 = heapEnd /\ ~Bit(sh.trees, 1))
    ELSE heapEnd - (end + 1) < L(sh.smallestTreeSize - 1)

\* A slip in case 1 of the finality test: the order-1 tree that an order-0 tree
\* will follow at the very end of the range is not taken as final.
IsLastOrderOneOnlyAtEnd(sh, end, heapEnd) ==
    IF sh.smallestTreeSize = 0 THEN end + 1 = heapEnd
    ELSE IF sh.smallestTreeSize = 1
    THEN end + 1 = heapEnd
    ELSE heapEnd - (end + 1) < L(sh.smallestTreeSize - 1) + 1

\* The isLast switch of LeonardoHeapAdd, on the updated shape.
IsLast(sh, end, heapEnd) ==
    IF sh.smallestTreeSize = 0 THEN end + 1 = heapEnd
    ELSE IF sh.smallestTreeSize = 1
    THEN end + 1 = heapEnd \/ (end + 2 = heapEnd /\ ~Bit(sh.trees, 1))
    ELSE heapEnd - (end + 1) < L(sh.smallestTreeSize - 1) + 1

\* A slip in LeonardoHeapAdd: a tree that is not final is left as it is.
LeonardoHeapAddNoRebalance(st, end, heapEnd, sh) ==
    LET newShape == AddShape(sh)
        isLast == IsLast(newShape, end, heapEnd)
    IN  [shape |-> newShape,
         isLast |-> isLast,
         st |-> IF ~isLast
                THEN st
                ELSE LeonardoHeapRectify(st, end + 1, newShape)]

\* LeonardoHeapAdd(begin, end, heapEnd, shape, comp): the new shape and range.
LeonardoHeapAdd(st, end, heapEnd, sh) ==
    LET newShape == AddShape(sh)
        isLast == IsLast(newShape, end, heapEnd)
    IN  [shape |-> newShape,
         isLast |-> isLast,
         st |-> IF ~isLast
                THEN RebalanceSingleHeap(st, end, newShape.smallestTreeSize)
                ELSE LeonardoHeapRectify(st, end + 1, newShape)]

\* Case 1 of LeonardoHeapRemove:
\* do { trees >>= 1; ++smallestTreeSize; } while (trees.any() && !trees[0]);
RECURSIVE DropLastTree(_)
DropLastTree(sh) ==
    LET next == [trees |-> ShiftRight(sh.trees, 1),
                 smallestTreeSize |-> sh.smallestTreeSize + 1]
    IN  IF AnyBit(next.trees) /\ ~Bit(next.trees, 0) THEN DropLastTree(next) ELSE next

\* A slip in case 2 of LeonardoHeapRemove: shape.trees[0] = false is left out,
\* (W1, n) becomes (W111, n - 2).
SplitLastTreeKeepsRoot(sh) ==
    [trees |-> SetBit(SetBit(ShiftLeft(sh.trees, 2), 0), 1),
     smallestTreeSize |-> sh.smallestTreeSize - 2]

\* Case 2 of LeonardoHeapRemove: (W1, n) becomes (W011, n - 2).
SplitLastTree(sh) ==
    [trees |-> SetBit(SetBit(ShiftLeft(ClearBit(sh.trees, 0), 2), 0), 1),
     smallestTreeSize |-> sh.smallestTreeSize - 2]

\* HeapShape allButLast = shape; ++allButLast.smallestTreeSize; allButLast.trees >>= 1;
AllButLast(sh) ==
    [trees |-> ShiftRight(sh.trees, 1), smallestTreeSize |-> sh.smallestTreeSize + 1]

\* A slip in LeonardoHeapRemove: only the right exposed heap is rectified.
LeonardoHeapRemoveRightOnly(st, end, sh) ==
    IF sh.smallestTreeSize <= 1
    THEN [shape |-> DropLastTree(sh), st |-> st]
    ELSE
        LET newShape == SplitLastTree(sh)
            rightHeap == SecondChild(end - 1)
        IN  [shape |-> newShape,
             st |-> LeonardoHeapRectify(st, rightHeap + 1, newShape)]

\* A slip in LeonardoHeapRemove: the removed root is exchanged with the root of
\* the right exposed heap before the two heaps are rectified.
LeonardoHeapRemoveExchangesRoot(st, end, sh) ==
    IF sh.smallestTreeSize <= 1
    THEN [shape |-> DropLastTree(sh), st |-> st]
    ELSE
        LET heapOrder == sh.smallestTreeSize
            newShape == SplitLastTree(sh)
            leftHeap == FirstChild(end - 1, heapOrder)
            rightHeap == SecondChild(end - 1)
            exchanged == [st EXCEPT !.a = Swap(@, end - 1, rightHeap)]
            afterLeft == LeonardoHeapRectify(exchanged, leftHeap + 1,
                                             AllButLast(newShape))
        IN  [shape |-> newShape,
             st |-> IF afterLeft.fault THEN afterLeft
                    ELSE LeonardoHeapRectify(afterLeft, rightHeap + 1, newShape)]

\* A slip in case 1 of LeonardoHeapRemove: the loop condition is !shape.trees[0]
\* alone, so the scan never ends once the last tree of the forest is dropped.
LeonardoHeapRemoveScanWithoutAny(st, end, sh) ==
    IF sh.smallestTreeSize <= 1
    THEN [shape |-> DropLastTree(sh),
          st |-> [st EXCEPT !.fault = ~AnyBit(ShiftRight(sh.trees, 1))]]
    ELSE
        LET heapOrder == sh.smallestTreeSize
            newShape == SplitLastTree(sh)
            leftHeap == FirstChild(end - 1, heapOrder)
            rightHeap == SecondChild(end - 1)
            afterLeft == LeonardoHeapRectify(st, leftHeap + 1, AllButLast(newShape))
        IN  [shape |-> newShape,
             st |-> IF afterLeft.fault THEN afterLeft
                    ELSE LeonardoHeapRectify(afterLeft, rightHeap + 1, newShape)]

\* LeonardoHeapRemove(begin, end, shape, comp): the new shape and range.
LeonardoHeapRemove(st, end, sh) ==
    IF sh.smallestTreeSize <= 1
    THEN [shape |-> DropLastTree(sh), st |-> st]
    ELSE
        LET heapOrder == sh.smallestTreeSize
            newShape == SplitLastTree(sh)
            leftHeap == FirstChild(end - 1, heapOrder)
            rightHeap == SecondChild(end - 1)
            afterLeft == LeonardoHeapRectify(st, leftHeap + 1, AllButLast(newShape))
        IN  [shape |-> newShape,
             st |-> IF afterLeft.fault THEN afterLeft
                    ELSE LeonardoHeapRectify(afterLeft, rightHeap + 1, newShape)]

---------------------------------------------------------------------------
(* Smoothsort: the driver. *)

NoTree == [root |-> 0, left |-> <<>>, right |-> <<>>]

OtherAlgsIdle == UNCHANGED <<callRoot, callSize, isSigned, tree, pq>>

\* Smoothsort(begin, end) is called on a range.
InitSmoothsort ==
    /\ alg = "Smoothsort"
    /\ pc = "call"
    /\ input \in SmoothsortInputs
    /\ a = input
    /\ shape = EmptyShape
    /\ itr = 0
    /\ cmps = 0
    /\ fault = FALSE
    /\ lastOp = "none"
    /\ nAdds = 0
    /\ nRemoves = 0
    /\ rectified = {}
    /\ callRoot = 0
    /\ callSize = 0
    /\ isSigned = FALSE
    /\ tree = NoTree
    /\ pq = {}

\* A slip in the edge-case test: only the empty range returns at once.
IsTrivialRangeEmptyOnly(n) == n = 0

\* The edge-case test of Smoothsort on a range of n elements:
\* begin == end || begin + 1 == end
IsTrivialRange(n) == n = 0 \/ n = 1

\* if (begin == end || begin + 1 == end) return;
SmoothsortTrivial ==
    /\ alg = "Smoothsort" /\ pc = "call"
    /\ IsTrivialRange(Len(a))
    /\ pc' = "done"
    /\ UNCHANGED <<alg, input, a, shape, itr, cmps, fault, lastOp, nAdds, nRemoves,
                   rectified>>
    /\ OtherAlgsIdle

\* shape.smallestTreeSize = 0; itr = begin
SmoothsortBegin ==
    /\ alg = "Smoothsort" /\ pc = "call"
    /\ ~IsTrivialRange(Len(a))
    /\ shape' = EmptyShape
    /\ itr' = 0
    /\ pc' = "build"
    /\ UNCHANGED <<alg, input, a, cmps, fault, lastOp, nAdds, nRemoves, rectified>>
    /\ OtherAlgsIdle

\* One iteration of the first loop: LeonardoHeapAdd(begin, itr, end, shape, comp); ++itr
BuildStep ==
    /\ alg = "Smoothsort" /\ pc = "build"
    /\ itr # Len(a)
    /\ ~fault
    /\ LET r == LeonardoHeapAdd([a |-> a, cmps |-> cmps, fault |-> fault],
                                itr, Len(a), shape)
       IN  /\ a' = r.st.a
           /\ cmps' = r.st.cmps
           /\ fault' = r.st.fault
           /\ shape' = r.shape
           /\ lastOp' = IF r.isLast THEN "addRectify" ELSE "addRebalance"
           /\ rectified' = IF r.isLast
                           THEN rectified \cup {[root |-> itr,
                                                 order |-> r.shape.smallestTreeSize]}
                           ELSE rectified
    /\ itr' = itr + 1
    /\ nAdds' = nAdds + 1
    /\ UNCHANGED <<alg, pc, input, nRemoves>>
    /\ OtherAlgsIdle

\* The first loop ends (itr == end); the second starts with itr = end.
\* A call that went wrong (fault) has not returned, so the loop does not go on.
BuildDone ==
    /\ alg = "Smoothsort" /\ pc = "build"
    /\ itr = Len(a)
    /\ ~fault
    /\ pc' = "extract"
    /\ itr' = Len(a)
    /\ UNCHANGED <<alg, input, a, shape, cmps, fault, lastOp, nAdds, nRemoves,
                   rectified>>
    /\ OtherAlgsIdle

\* One iteration of the second loop: LeonardoHeapRemove(begin, itr, shape, comp); --itr
ExtractStep ==
    /\ alg = "Smoothsort" /\ pc = "extract"
    /\ itr # 0
    /\ ~fault
    /\ LET r == LeonardoHeapRemove([a |-> a, cmps |-> cmps, fault |-> fault],
                                   itr, shape)
       IN  /\ a' = r.st.a
           /\ cmps' = r.st.cmps
           /\ fault' = r.st.fault
           /\ shape' = r.shape
    /\ lastOp' = "remove"
    /\ itr' = itr - 1
    /\ nRemoves' = nRemoves + 1
    /\ UNCHANGED <<alg, pc, input, nAdds, rectified>>
    /\ OtherAlgsIdle

\* The second loop ends (itr == begin) and Smoothsort returns.
ExtractDone ==
    /\ alg = "Smoothsort" /\ pc = "extract"
    /\ itr = 0
    /\ ~fault
    /\ pc' = "done"
    /\ UNCHANGED <<alg, input, a, shape, itr, cmps, fault, lastOp, nAdds, nRemoves,
                   rectified>>
    /\ OtherAlgsIdle

NextSmoothsort ==
    \/ SmoothsortTrivial
    \/ SmoothsortBegin
    \/ BuildStep
    \/ BuildDone
    \/ ExtractStep
    \/ ExtractDone

Spec == InitSmoothsort /\ [][NextSmoothsort]_vars

\* The ranges of the specification with fairness: every order pattern of every
\* length up to MaxLenTotal, sorted and reverse-sorted ranges a little longer.
SmoothsortTotalInputs ==
    UNION {WeakOrders(n) : n \in 0..MaxLenTotal}
    \cup {Ascending(n) : n \in 0..(MaxLenTotal + 4)}
    \cup {Descending(n) : n \in 0..(MaxLenTotal + 4)}

InitTotal == InitSmoothsort /\ input \in SmoothsortTotalInputs

\* Smoothsort is one synchronous call with no suspension point: whenever a step
\* of it can be taken, it is taken.
SpecTotal == InitTotal /\ [][NextSmoothsort]_vars /\ WF_vars(NextSmoothsort)

---------------------------------------------------------------------------
(* Direct calls of the tree helpers of smoothsort_detail, on the tree of   *)
(* order callSize rooted at position callRoot of a range.                  *)

\* The positions of the tree of the given order rooted at root.
TreePositions(root, size) == (root - L(size) + 1)..root

\* The orders of a tree that is rooted at root and lies within the range.
OrdersThatFit(root) == {k \in 0..(kNumLeonardoNumbers - 3) : L(k) <= root + 1}

InitTreeCall ==
    /\ alg \in {"LargerChild", "RebalanceSingleHeap"}
    /\ pc = "call"
    /\ input \in UNION {WeakOrders(n) : n \in 1..MaxLenTree}
    /\ a = input
    /\ callRoot \in 0..(Len(input) - 1)
    /\ callSize \in OrdersThatFit(callRoot)
    /\ alg = "LargerChild" => callSize > 1
    /\ shape = EmptyShape
    /\ itr = 0
    /\ cmps = 0
    /\ fault = FALSE
    /\ lastOp = "none"
    /\ nAdds = 0
    /\ nRemoves = 0
    /\ rectified = {}
    /\ isSigned = FALSE
    /\ tree = NoTree
    /\ pq = {}

\* LargerChild(root, size, comp) is called; itr takes the iterator it returns.
CallLargerChild ==
    /\ alg = "LargerChild" /\ pc = "call"
    /\ itr' = LargerChild(a, callRoot, callSize)
    /\ cmps' = cmps + 1
    /\ pc' = "done"
    /\ UNCHANGED <<alg, input, a, shape, fault, lastOp, nAdds, nRemoves, rectified>>
    /\ OtherAlgsIdle

\* RebalanceSingleHeap(root, size, comp) is called.
CallRebalanceSingleHeap ==
    /\ alg = "RebalanceSingleHeap" /\ pc = "call"
    /\ LET r == RebalanceSingleHeap([a |-> a, cmps |-> cmps, fault |-> fault],
                                    callRoot, callSize)
       IN  /\ a' = r.a
           /\ cmps' = r.cmps
           /\ fault' = r.fault
    /\ pc' = "done"
    /\ UNCHANGED <<alg, input, shape, itr, lastOp, nAdds, nRemoves, rectified>>
    /\ OtherAlgsIdle

NextTreeCall ==
    \/ CallLargerChild
    \/ CallRebalanceSingleHeap

SpecTreeCall == InitTreeCall /\ [][NextTreeCall]_vars

---------------------------------------------------------------------------
(* BinaryQuicksort.  An element is the bit pattern of a kNumBits-bit integer, *)
(* a number in 0 .. 2^kNumBits - 1; a signed type reads it in two's          *)
(* complement.                                                               *)

\* CHAR_BIT * sizeof(T): the width of the element type of the model.
kNumBits == 3

Pow2(n) == 2 ^ n

Patterns == 0..(Pow2(kNumBits) - 1)

\* The value of a pattern as the type T reads it.
NumericValue(x, signed) ==
    IF signed /\ x >= Pow2(kNumBits - 1) THEN x - Pow2(kNumBits) ELSE x

\* *p & bitmask, with bitmask = T(1) << bit.
BitIsSet(x, bit) == (x \div Pow2(bit)) % 2 = 1

\* while (begin < end && !(*begin & bitmask)) ++begin;
RECURSIVE SkipZeros(_, _, _, _)
SkipZeros(arr, b, e, bit) ==
    IF b < e /\ ~BitIsSet(At(arr, b), bit) THEN SkipZeros(arr, b + 1, e, bit) ELSE b

\* do { --end; } while (begin < end && !!(*end & bitmask));
RECURSIVE SkipOnes(_, _, _, _)
SkipOnes(arr, b, e, bit) ==
    LET e1 == e - 1
    IN  IF b < e1 /\ BitIsSet(At(arr, e1), bit) THEN SkipOnes(arr, b, e1, bit) ELSE e1

\* PartitionAtBit(begin, end, bit): the range after it and the iterator returned.
RECURSIVE PartitionAtBit(_, _, _, _)
PartitionAtBit(arr, b, e, bit) ==
    LET b1 == SkipZeros(arr, b, e, bit)
    IN  IF b1 = e THEN [a |-> arr, pivot |-> b1]
        ELSE LET e1 == SkipOnes(arr, b1, e, bit)
             IN  IF b1 = e1 THEN [a |-> arr, pivot |-> b1]
                 ELSE PartitionAtBit(Swap(arr, b1, e1), b1, e1, bit)

\* BinaryQuicksortAtBit(begin, end, bit): the smaller side is sorted by the
\* recursive call, the larger one by the next iteration of the loop.
RECURSIVE BinaryQuicksortAtBit(_, _, _, _)
BinaryQuicksortAtBit(arr, b, e, bit) ==
    IF bit >= 0 /\ e - b > 1
    THEN LET p == PartitionAtBit(arr, b, e, bit)
         IN  IF p.pivot - b < e - p.pivot
             THEN BinaryQuicksortAtBit(
                      BinaryQuicksortAtBit(p.a, b, p.pivot, bit - 1),
                      p.pivot, e, bit - 1)
             ELSE BinaryQuicksortAtBit(
                      BinaryQuicksortAtBit(p.a, p.pivot, e, bit - 1),
                      b, p.pivot, bit - 1)
    ELSE arr

\* std::rotate(begin, middle, end): [middle, end) followed by [begin, middle).
Rotate(arr, middle) ==
    [i \in 1..Len(arr) |->
        IF i <= Len(arr) - middle THEN arr[i + middle] ELSE arr[i - (Len(arr) - middle)]]

\* A slip in RotateNegativeValues: the rotation starts one element late.
RotateNegativeValuesOffByOne(arr) ==
    LET negatives == {p \in 0..(Len(arr) - 1) : NumericValue(At(arr, p), TRUE) < 0}
    IN  IF negatives = {} THEN arr
        ELSE Rotate(arr, (CHOOSE p \in negatives : \A q \in negatives : p <= q) + 1)

\* RotateNegativeValues(begin, end): rotate at the first negative value, if any.
RotateNegativeValues(arr) ==
    LET negatives == {p \in 0..(Len(arr) - 1) : NumericValue(At(arr, p), TRUE) < 0}
    IN  IF negatives = {} THEN arr
        ELSE Rotate(arr, CHOOSE p \in negatives : \A q \in negatives : p <= q)

RECURSIVE SeqsUpTo(_, _)
SeqsUpTo(S, n) ==
    IF n = 0 THEN {<<>>}
    ELSE SeqsUpTo(S, n - 1)
         \cup {Append(s, v) : s \in {t \in SeqsUpTo(S, n - 1) : Len(t) = n - 1}, v \in S}

SmoothsortIdle ==
    UNCHANGED <<shape, cmps, fault, lastOp, nAdds, nRemoves, rectified,
                callRoot, callSize>>

\* BinaryQuicksort(begin, end) is called on a range of signed or unsigned integers.
InitBinaryQuicksort ==
    /\ alg = "BinaryQuicksort"
    /\ pc = "call"
    /\ input \in SeqsUpTo(Patterns, MaxLenBQ)
    /\ a = input
    /\ isSigned \in BOOLEAN
    /\ shape = EmptyShape
    /\ itr = 0
    /\ cmps = 0
    /\ fault = FALSE
    /\ lastOp = "none"
    /\ nAdds = 0
    /\ nRemoves = 0
    /\ rectified = {}
    /\ callRoot = 0
    /\ callSize = 0
    /\ tree = NoTree
    /\ pq = {}

\* BinaryQuicksortAtBit(begin, end, kNumBits - 1);
SortByBits ==
    /\ alg = "BinaryQuicksort" /\ pc = "call"
    /\ a' = BinaryQuicksortAtBit(a, 0, Len(a), kNumBits - 1)
    /\ pc' = "bitsSorted"
    /\ UNCHANGED <<alg, input, itr, isSigned, tree, pq>>
    /\ SmoothsortIdle

\* if (std::numeric_limits<T>::is_signed) RotateNegativeValues(begin, end);
RotateSigned ==
    /\ alg = "BinaryQuicksort" /\ pc = "bitsSorted"
    /\ isSigned
    /\ a' = RotateNegativeValues(a)
    /\ pc' = "done"
    /\ UNCHANGED <<alg, input, itr, isSigned, tree, pq>>
    /\ SmoothsortIdle

\* An unsigned element type: BinaryQuicksort returns after the bit passes.
ReturnUnsigned ==
    /\ alg = "BinaryQuicksort" /\ pc = "bitsSorted"
    /\ ~isSigned
    /\ pc' = "done"
    /\ UNCHANGED <<alg, input, a, itr, isSigned, tree, pq>>
    /\ SmoothsortIdle

NextBinaryQuicksort ==
    \/ SortByBits
    \/ RotateSigned
    \/ ReturnUnsigned

SpecBinaryQuicksort == InitBinaryQuicksort /\ [][NextBinaryQuicksort]_vars

---------------------------------------------------------------------------
(* CartesianTreeSort.  Node i (1 .. n) is the node made for the i-th element *)
(* of the range, its value the copy input[i]; 0 is NULL.                    *)

NULL == 0

\* A slip in the walk up the right spine: the arguments of comp are exchanged.
RECURSIVE PopToParentCompExchanged(_, _, _)
PopToParentCompExchanged(vals, spine, node) ==
    LET curr == spine[Len(spine)]
    IN  IF curr # NULL /\ ~Comp(vals[node], vals[curr])
        THEN PopToParentCompExchanged(vals, SubSeq(spine, 1, Len(spine) - 1), node)
        ELSE spine

\* Walking up the right spine (a stack, its top last) from its top until a node
\* that can be the parent is found: comp(curr->value, node->value).
RECURSIVE PopToParent(_, _, _)
PopToParent(vals, spine, node) ==
    LET curr == spine[Len(spine)]
    IN  IF curr # NULL /\ ~Comp(vals[curr], vals[node])
        THEN PopToParent(vals, SubSeq(spine, 1, Len(spine) - 1), node)
        ELSE spine

\* A slip in the new-minimum case: the old tree is made the right child of the
\* new root (node->right = root), as the comment above that case says.
InsertNodeOldTreeOnTheRight(vals, t, node) ==
    LET spine == PopToParent(vals, t.rightSpine, node)
        curr == spine[Len(spine)]
    IN  IF curr = NULL
        THEN [root |-> node,
              left |-> t.left,
              right |-> [t.right EXCEPT ![node] = t.root],
              rightSpine |-> Append(spine, node)]
        ELSE [root |-> t.root,
              left |-> [t.left EXCEPT ![node] = t.right[curr]],
              right |-> [t.right EXCEPT ![curr] = node],
              rightSpine |-> Append(spine, node)]

\* One iteration of the loop of MakeCartesianTree: the node of the next element
\* is linked below the parent found on the right spine, or becomes the root.
InsertNode(vals, t, node) ==
    LET spine == PopToParent(vals, t.rightSpine, node)
        curr == spine[Len(spine)]
    IN  IF curr = NULL
        THEN [root |-> node,
              left |-> [t.left EXCEPT ![node] = t.root],
              right |-> t.right,
              rightSpine |-> Append(spine, node)]
        ELSE [root |-> t.root,
              left |-> [t.left EXCEPT ![node] = t.right[curr]],
              right |-> [t.right EXCEPT ![curr] = node],
              rightSpine |-> Append(spine, node)]

RECURSIVE InsertNodes(_, _, _)
InsertNodes(vals, t, node) ==
    IF node > Len(vals) THEN t
    ELSE InsertNodes(vals, InsertNode(vals, t, node), node + 1)

\* MakeCartesianTree(begin, end, comp): root = NULL, rightSpine = <NULL>, then
\* one node per element.
MakeCartesianTree(vals) ==
    LET t == InsertNodes(vals,
                 [root |-> NULL,
                  left |-> [i \in 1..Len(vals) |-> NULL],
                  right |-> [i \in 1..Len(vals) |-> NULL],
                  rightSpine |-> <<NULL>>],
                 1)
    IN  [root |-> t.root, left |-> t.left, right |-> t.right]

\* NodeComparator(lhs, rhs) == !comp(lhs->value, rhs->value).
NodeComparator(vals, lhs, rhs) == ~Comp(vals[lhs], vals[rhs])

\* The nodes pq.top() can return: NodeComparator is no strict ordering
\* (it holds of a node and itself), so among nodes of equal value the heap may
\* hold any of them on top; a node on top has no node of smaller value below it.
TopNodes(vals, queue) ==
    {x \in queue : \A y \in queue : NodeComparator(vals, y, x)}

\* if (curr->left) pq.push(curr->left); if (curr->right) pq.push(curr->right);
Children(t, node) == {t.left[node], t.right[node]} \ {NULL}

CartesianTreeSortIdle ==
    UNCHANGED <<shape, cmps, fault, lastOp, nAdds, nRemoves, rectified,
                callRoot, callSize, isSigned>>

\* CartesianTreeSort(begin, end) is called on a range.
InitCartesianTreeSort ==
    /\ alg = "CartesianTreeSort"
    /\ pc = "call"
    /\ input \in UNION {WeakOrders(n) : n \in 0..MaxLenCT}
    /\ a = input
    /\ isSigned = FALSE
    /\ shape = EmptyShape
    /\ itr = 0
    /\ cmps = 0
    /\ fault = FALSE
    /\ lastOp = "none"
    /\ nAdds = 0
    /\ nRemoves = 0
    /\ rectified = {}
    /\ callRoot = 0
    /\ callSize = 0
    /\ tree = NoTree
    /\ pq = {}

\* if (begin == end) return;
CartesianTreeSortEmpty ==
    /\ alg = "CartesianTreeSort" /\ pc = "call"
    /\ Len(a) = 0
    /\ pc' = "done"
    /\ UNCHANGED <<alg, input, a, itr, tree, pq>>
    /\ CartesianTreeSortIdle

\* tree(MakeCartesianTree(begin, end, comp)); pq.push(tree.get()); itr = begin
BuildTree ==
    /\ alg = "CartesianTreeSort" /\ pc = "call"
    /\ Len(a) # 0
    /\ tree' = MakeCartesianTree(a)
    /\ pq' = {tree'.root}
    /\ itr' = 0
    /\ pc' = "output"
    /\ UNCHANGED <<alg, input, a>>
    /\ CartesianTreeSortIdle

\* One iteration of the output loop: curr = pq.top(); pq.pop(); *itr = curr->value;
\* push the children of curr; ++itr
OutputStep ==
    /\ alg = "CartesianTreeSort" /\ pc = "output"
    /\ itr # Len(a)
    /\ \E curr \in TopNodes(input, pq) :
        /\ a' = [a EXCEPT ![itr + 1] = input[curr]]
        /\ pq' = (pq \ {curr}) \cup Children(tree, curr)
    /\ itr' = itr + 1
    /\ UNCHANGED <<alg, pc, input, tree>>
    /\ CartesianTreeSortIdle

\* The output loop ends (itr == end) and CartesianTreeSort returns.
OutputDone ==
    /\ alg = "CartesianTreeSort" /\ pc = "output"
    /\ itr = Len(a)
    /\ pc' = "done"
    /\ UNCHANGED <<alg, input, a, itr, tree, pq>>
    /\ CartesianTreeSortIdle

NextCartesianTreeSort ==
    \/ CartesianTreeSortEmpty
    \/ BuildTree
    \/ OutputStep
    \/ OutputDone

SpecCartesianTreeSort == InitCartesianTreeSort /\ [][NextCartesianTreeSort]_vars

---------------------------------------------------------------------------
(* Smoothsort: what the shape describes. *)

\* The orders of the trees of the forest: bit b of trees stands for order
\* smallestTreeSize + b.
Orders(sh) == {sh.smallestTreeSize + b : b \in sh.trees}

MinOf(S) == CHOOSE m \in S : \A x \in S : m <= x

\* The trees of a forest with the given orders that ends at position end - 1:
\* the smallest tree is the rightmost, each tree of order k covers L(k) positions.
RECURSIVE TreesOf(_, _)
TreesOf(orders, end) ==
    IF orders = {} THEN {}
    ELSE LET k == MinOf(orders)
         IN  {[root |-> end - 1, order |-> k]} \cup TreesOf(orders \ {k}, end - L(k))

Forest(sh, end) == TreesOf(Orders(sh), end)

\* The sum of L(order) over the orders present in the shape.
RECURSIVE SizeOf(_)
SizeOf(orders) ==
    IF orders = {} THEN 0
    ELSE LET k == MinOf(orders) IN L(k) + SizeOf(orders \ {k})

ShapeSize(sh) == SizeOf(Orders(sh))

\* The max-heap property of the tree of the given order rooted at root, recursively.
RECURSIVE IsMaxHeap(_, _, _)
IsMaxHeap(arr, root, order) ==
    \/ order <= 1
    \/ /\ ~Comp(At(arr, root), At(arr, FirstChild(root, order)))
       /\ ~Comp(At(arr, root), At(arr, SecondChild(root)))
       /\ IsMaxHeap(arr, FirstChild(root, order), order - 1)
       /\ IsMaxHeap(arr, SecondChild(root), order - 2)

\* The number of elements the heap covers: the active range is [begin, begin + Active).
Active == itr

InHeapPhase == alg = "Smoothsort" /\ pc \in {"build", "extract"}

\* Roots read from left to right never go down / never go up.
RootsNonDecreasing ==
    \A s, t \in Forest(shape, Active) :
        s.root < t.root => ~Comp(At(a, t.root), At(a, s.root))

RootsNonIncreasing ==
    \A s, t \in Forest(shape, Active) :
        s.root < t.root => ~Comp(At(a, s.root), At(a, t.root))

IsReverseSorted(arr) == \A i \in 1..(Len(arr) - 1) : ~Comp(arr[i], arr[i + 1])

SmoothsortDone == alg = "Smoothsort" /\ pc = "done"

---------------------------------------------------------------------------
(* Claims about Smoothsort. *)

\* C1: when Smoothsort returns, the range holds a permutation of the input in
\* non-descending order: comp(a[i+1], a[i]) is false for every adjacent pair.
C1_SmoothsortSorts ==
    SmoothsortDone => IsPermutation(input, a) /\ IsSorted(a) /\ ~fault

C1_Witness ==
    SmoothsortDone /\ input = <<5, 3, 4, 1, 2>> /\ a = <<1, 2, 3, 4, 5>>

\* C2: on a range of length 0 or 1 Smoothsort returns with the range unchanged,
\* no insert, no remove and no comparator invocation.
C2_TrivialRangeUntouched ==
    (SmoothsortDone /\ Len(input) <= 1) =>
        a = input /\ nAdds = 0 /\ nRemoves = 0 /\ cmps = 0 /\ lastOp = "none"

C2_Witness == SmoothsortDone /\ Len(input) = 1 /\ a = input

\* C3: an input that is already in non-descending order comes back unchanged,
\* position by position.
C3_SortedInputUnchanged ==
    (SmoothsortDone /\ IsSorted(input)) => \A i \in 1..Len(input) : a[i] = input[i]

C3_Witness ==
    SmoothsortDone /\ input = <<1, 2, 3, 4, 5, 6>> /\ a = input /\ nRemoves = 6

C7_RemoveSeesMaximum ==
    (alg = "Smoothsort" /\ pc = "extract" /\ itr # 0) =>
        \A p \in 0..(itr - 1) : ~Comp(At(a, itr - 1), At(a, p))

C7_Witness ==
    /\ alg = "Smoothsort" /\ pc = "extract" /\ nRemoves >= 2 /\ itr >= 3
    /\ ~IsSorted(input)
    /\ At(a, itr - 1) > At(a, itr - 2)

\* C8: after every completed LeonardoHeapAdd and LeonardoHeapRemove every tree of
\* the forest is a max-heap, recursively.
C8_TreesAreMaxHeaps ==
    InHeapPhase => \A t \in Forest(shape, Active) : IsMaxHeap(a, t.root, t.order)

C8_Witness ==
    /\ InHeapPhase /\ lastOp = "remove" /\ ~IsSorted(input) /\ a # input
    /\ \E t \in Forest(shape, Active) : t.order >= 2
    /\ Cardinality(Forest(shape, Active)) >= 2

\* C9 (as stated): after any completed insert or remove the roots of the trees,
\* read from left to right, are in non-increasing order.
C9_RootsNonIncreasing ==
    (InHeapPhase /\ lastOp # "none") => RootsNonIncreasing

\* C9 (amended): once the last insert of the first loop has completed, and after
\* any completed remove, the roots of the trees, read from left to right, are in
\* non-decreasing order.
C9_RootsNonDecreasingOnceBuilt ==
    /\ (alg = "Smoothsort" /\ pc = "build" /\ nAdds = Len(a)) => RootsNonDecreasing
    /\ (alg = "Smoothsort" /\ pc = "extract") => RootsNonDecreasing

C9_Witness ==
    /\ alg = "Smoothsort" /\ pc = "extract" /\ lastOp = "remove" /\ ~IsSorted(input)
    /\ Cardinality(Forest(shape, Active)) >= 2
    /\ \E s, t \in Forest(shape, Active) : At(a, s.root) < At(a, t.root)

\* C10: the shape describes exactly the elements the heap covers: i after the
\* i-th insert, n - j after the j-th remove, and no tree when the second loop ends.
C10_ShapeTracksSize ==
    /\ (alg = "Smoothsort" /\ pc = "build") =>
            ShapeSize(shape) = nAdds /\ nAdds = itr
    /\ (alg = "Smoothsort" /\ pc = "extract") =>
            ShapeSize(shape) = Len(a) - nRemoves /\ nAdds = Len(a)
                /\ itr = Len(a) - nRemoves
    /\ (SmoothsortDone /\ Len(a) > 1) =>
            shape.trees = EmptyTrees /\ nRemoves = Len(a)

C10_Witness ==
    /\ alg = "Smoothsort" /\ pc = "extract" /\ nRemoves = 2
    /\ Len(a) = MaxLen /\ Cardinality(Orders(shape)) = 2

---------------------------------------------------------------------------
(* Claims about the Leonardo heap engine. *)

BuildFinished == alg = "Smoothsort" /\ pc = "build" /\ itr = Len(a)

\* C11: an insert runs the full LeonardoHeapRectify on the tree it made if and
\* only if no later insert of the first loop merges that tree: when the first
\* loop ends, the trees that were rectified are exactly the trees of the forest.
C11_RectifiedIffFinal ==
    BuildFinished => rectified = Forest(shape, Len(a))

\* C23: every tree of the forest the first loop ends with was given the full
\* LeonardoHeapRectify by the insert that made it (the insert at its root
\* position, with its order); so a tree whose insert ran RebalanceSingleHeap only
\* is in no final forest: a later insert of the loop has merged it.
C23_FinalTreesWereRectified ==
    BuildFinished => Forest(shape, Len(a)) \subseteq rectified

C23_Witness ==
    /\ BuildFinished /\ ~IsSorted(input) /\ a # input
    /\ Cardinality(Forest(shape, Len(a))) >= 2
    /\ \E t \in Forest(shape, Len(a)) : t.order >= 2
    /\ Cardinality(rectified) < nAdds

\* The tree s is the left neighbour of the tree t.
IsLeftNeighbour(s, t) == s.root = t.root - L(t.order)

\* C24: when the first loop has finished, and after every completed
\* LeonardoHeapRemove, comp(root of a tree, root of the tree to its left) is false
\* for every two adjacent trees of the remaining forest, and the rightmost root
\* is a maximum of the active range.
C24_AdjacentRootsAscendOnceBuilt ==
    (BuildFinished \/ (alg = "Smoothsort" /\ pc = "extract")) =>
        /\ \A s, t \in Forest(shape, Active) :
                IsLeftNeighbour(s, t) => ~Comp(At(a, t.root), At(a, s.root))
        /\ \A p \in 0..(Active - 1) : ~Comp(At(a, Active - 1), At(a, p))

C24_Witness ==
    /\ alg = "Smoothsort" /\ pc = "extract" /\ lastOp = "remove"
    /\ ~IsSorted(input) /\ ~IsReverseSorted(input)
    /\ Cardinality(Forest(shape, Active)) = 3
    /\ \E s, t \in Forest(shape, Active) :
            IsLeftNeighbour(s, t) /\ Comp(At(a, s.root), At(a, t.root))

\* The shape is one for which LeonardoHeapAdd takes its last case ("everything
\* else"): not empty, the two smallest trees not of consecutive orders, the
\* smallest not of order 1.
TakesLastCase(sh) ==
    /\ Bit(sh.trees, 0)
    /\ ~(Bit(sh.trees, 1) /\ Bit(sh.trees, 0))
    /\ sh.smallestTreeSize # 1

\* C25: during the first loop, whenever the smallest tree of a non-empty shape
\* has order 0, a tree of order 1 is its left neighbour; so the last case of
\* LeonardoHeapAdd is only taken with smallestTreeSize >= 2 and its shift amount
\* smallestTreeSize - 1 never wraps around.
C25_LastCaseShiftNeverUnderflows ==
    (alg = "Smoothsort" /\ pc = "build") =>
        /\ (AnyBit(shape.trees) /\ shape.smallestTreeSize = 0) =>
                /\ Bit(shape.trees, 0) /\ Bit(shape.trees, 1)
                /\ \E s, t \in Forest(shape, Active) :
                        t.order = 0 /\ s.order = 1 /\ IsLeftNeighbour(s, t)
        /\ TakesLastCase(shape) => shape.smallestTreeSize >= 2

C25_Witness ==
    /\ alg = "Smoothsort" /\ pc = "build" /\ itr # Len(a)
    /\ nAdds = 7 /\ Orders(shape) = {3, 1, 0}
    /\ ~IsSorted(input)

\* The orders the four cases of an insert give a forest with the orders O.
OrdersAfterAdd(O) ==
    IF O = {} THEN {1}
    ELSE LET k == MinOf(O)
         IN  IF k + 1 \in O THEN (O \ {k, k + 1}) \cup {k + 2}
             ELSE IF k = 1 THEN O \cup {0}
             ELSE O \cup {1}

\* C12: every LeonardoHeapAdd updates the shape by the first applicable of the
\* four cases: empty forest -> one tree of order 1; smallest orders k and k + 1
\* -> both replaced by one tree of order k + 2; smallest order 1 -> a tree of
\* order 0 added; otherwise a tree of order 1 added; every other tree keeps its
\* order, and the new or merged tree is the one the shape counts from.
C12_AddShapeCases ==
    [][(alg = "Smoothsort" /\ pc = "build" /\ nAdds' = nAdds + 1) =>
            /\ Orders(shape') = OrdersAfterAdd(Orders(shape))
            /\ shape'.smallestTreeSize = MinOf(Orders(shape'))]_vars

C12_Witness ==
    /\ alg = "Smoothsort" /\ pc = "build" /\ nAdds = 12 /\ Orders(shape) = {4, 2}
    /\ Len(a) > 12

\* The orders a remove gives a forest with the orders O.
OrdersAfterRemove(O) ==
    LET k == MinOf(O)
    IN  IF k <= 1 THEN O \ {k} ELSE (O \ {k}) \cup {k - 1, k - 2}

\* C13: every LeonardoHeapRemove(begin, itr, ...) drops a rightmost tree of
\* order <= 1, and replaces a rightmost tree of order k >= 2 by two trailing
\* trees: order k - 1 rooted at FirstChild(itr - 1, k), then order k - 2 rooted
\* at SecondChild(itr - 1); every other tree keeps its order.
C13_RemoveShapeCases ==
    [][(alg = "Smoothsort" /\ pc = "extract" /\ nRemoves' = nRemoves + 1) =>
            LET k == shape.smallestTreeSize
            IN  /\ Orders(shape') = OrdersAfterRemove(Orders(shape))
                /\ Orders(shape') # {} => shape'.smallestTreeSize = MinOf(Orders(shape'))
                /\ k >= 2 =>
                        /\ [root |-> FirstChild(itr - 1, k), order |-> k - 1]
                                \in Forest(shape', itr')
                        /\ [root |-> SecondChild(itr - 1), order |-> k - 2]
                                \in Forest(shape', itr')]_vars

C13_Witness ==
    /\ alg = "Smoothsort" /\ pc = "extract" /\ Len(a) = 13 /\ nRemoves = 5
    /\ Orders(shape) = {3, 2}

\* The trees of a forest with the given orders that ends at position end - 1,
\* from right to left.
RECURSIVE TreesRightToLeft(_, _)
TreesRightToLeft(orders, end) ==
    IF orders = {} THEN <<>>
    ELSE LET k == MinOf(orders)
         IN  <<[root |-> end - 1, order |-> k]>>
                \o TreesRightToLeft(orders \ {k}, end - L(k))

LargerValue(x, y) == IF Comp(x, y) THEN y ELSE x

\* The value a step of the walk compares against: the root of the tree or, when
\* its order is above 1, the largest of the root and its two children.
ComparisonValue(arr, t) ==
    IF t.order > 1
    THEN LargerValue(At(arr, t.root),
                     LargerValue(At(arr, FirstChild(t.root, t.order)),
                                 At(arr, SecondChild(t.root))))
    ELSE At(arr, t.root)

\* The stop test of a step as stated: the next root is not smaller than the
\* comparison value; and as amended: the next root is not greater than it.
StopsAsStated(nextRoot, value) == ~Comp(nextRoot, value)
StopsAmended(nextRoot, value) == ~Comp(value, nextRoot)

\* The leftward walk from the i-th tree (counted from the right): it stops at
\* the leftmost tree or when the stop test holds, and otherwise exchanges the
\* two roots and goes on from the next tree.  Gives the range and the tree the
\* walk ends on.
RECURSIVE WalkLeft(_, _, _, _)
WalkLeft(arr, trees, i, asStated) ==
    IF i = Len(trees) THEN [a |-> arr, tree |-> trees[i]]
    ELSE LET nextRoot == At(arr, trees[i + 1].root)
             value == ComparisonValue(arr, trees[i])
             stops == IF asStated THEN StopsAsStated(nextRoot, value)
                      ELSE StopsAmended(nextRoot, value)
         IN  IF stops THEN [a |-> arr, tree |-> trees[i]]
             ELSE WalkLeft(Swap(arr, trees[i].root, trees[i + 1].root),
                           trees, i + 1, asStated)

\* The range after the walk over the trees and the rebalance of the tree it ends on.
WalkThenRebalance(arr, trees, asStated) ==
    LET w == WalkLeft(arr, trees, 1, asStated)
    IN  RebalanceSingleHeap([a |-> w.a, cmps |-> 0, fault |-> FALSE],
                            w.tree.root, w.tree.order).a

\* Every LeonardoHeapRectify call of a step leaves the range the walk gives:
\* the one call of a rectifying insert, the two calls of a splitting remove.
RectifyCallsWalk(asStated) ==
    /\ (alg = "Smoothsort" /\ pc = "build" /\ nAdds' = nAdds + 1
            /\ lastOp' = "addRectify") =>
            a' = WalkThenRebalance(a, TreesRightToLeft(Orders(shape'), itr + 1),
                                   asStated)
    /\ (alg = "Smoothsort" /\ pc = "extract" /\ nRemoves' = nRemoves + 1
            /\ shape.smallestTreeSize >= 2) =>
            LET k == shape.smallestTreeSize
                leftEnd == FirstChild(itr - 1, k) + 1
                afterLeft == WalkThenRebalance(
                                a, TreesRightToLeft(Orders(shape') \ {k - 2}, leftEnd),
                                asStated)
            IN  a' = WalkThenRebalance(
                        afterLeft, TreesRightToLeft(Orders(shape'), itr - 1), asStated)

\* C14 (as stated): in each step of the leftward walk the comparison value is
\* the root or, for an order above 1, the larger of the root and its larger
\* child; the walk stops if the root of the next tree to the left is not
\* smaller than that value, otherwise the roots are exchanged and it goes on.
C14_WalkStopsWhenNextNotSmaller == [][RectifyCallsWalk(TRUE)]_vars

\* C14 (amended): the same walk, but it stops if the root of the next tree to
\* the left is not greater than the comparison value (comp(value, next root) is
\* false) and exchanges the roots if it is greater.
C14_WalkStopsWhenNextNotGreater == [][RectifyCallsWalk(FALSE)]_vars

C14_Witness ==
    /\ BuildFinished /\ lastOp = "addRectify"
    /\ input = <<1, 2, 3, 1>> /\ a = <<1, 1, 2, 3>>

\* C16: LeonardoHeapRemove(begin, itr, ...) leaves the element at itr - 1 and
\* every position from itr on as they are: the maximum stays where it is and the
\* suffix already extracted is never changed again.
C16_RemoveKeepsSuffix ==
    [][(alg = "Smoothsort" /\ pc = "extract" /\ nRemoves' = nRemoves + 1) =>
            \A p \in (itr - 1)..(Len(a) - 1) : At(a', p) = At(a, p)]_vars

C16_Witness ==
    /\ alg = "Smoothsort" /\ pc = "extract" /\ lastOp = "remove"
    /\ Len(a) = MaxLen /\ nRemoves = 3
    /\ IsSorted(SubSeq(a, itr + 1, Len(a)))
    /\ \A p \in 0..(itr - 1) : ~Comp(At(a, itr), At(a, p))
    /\ ~IsSorted(SubSeq(a, 1, itr))

\* C17: in every LeonardoHeapRectify call made during Smoothsort the walk
\* stops at the leftmost tree: the root of a prior tree is never looked for
\* before begin, and the scan for the next present order always finds a set bit.
C17_WalkStopsAtLeftmostTree == alg = "Smoothsort" => ~fault

C17_Witness ==
    /\ alg = "Smoothsort" /\ pc = "extract" /\ lastOp = "remove" /\ ~fault
    /\ input = <<2, 3, 4, 5, 6, 1>> /\ nRemoves = 2
    /\ a = <<2, 1, 3, 4, 5, 6>>

InsertsThenRemoves(n) == nAdds = n /\ nRemoves = n

\* C18 (as stated): on every range Smoothsort returns, after exactly n inserts
\* followed by exactly n removes, n the length of the range; no remove comes
\* before the last insert.
C18_TerminatesAfterNAndN ==
    /\ [](nRemoves > 0 => nAdds = Len(input))
    /\ <>(SmoothsortDone /\ InsertsThenRemoves(Len(input)))

\* C18 (amended): on every range Smoothsort returns: a range of length n >= 2
\* after exactly n inserts followed by exactly n removes, a range of length 0
\* or 1 at once, with no insert and no remove.
C18_TerminatesAfterNAndNUnlessTrivial ==
    /\ [](nRemoves > 0 => nAdds = Len(input))
    /\ <>(SmoothsortDone /\ InsertsThenRemoves(IF Len(input) <= 1 THEN 0
                                                 ELSE Len(input)))

C18_Witness ==
    /\ SmoothsortDone /\ Len(input) = MaxLenTotal /\ ~IsSorted(input)
    /\ InsertsThenRemoves(MaxLenTotal) /\ IsSorted(a)

RebalanceReturned == alg = "RebalanceSingleHeap" /\ pc = "done"

\* Both child subtrees of the tree are max-heaps (a tree of order 0 or 1 has none).
ChildrenAreHeaps(arr, root, size) ==
    \/ size <= 1
    \/ /\ IsMaxHeap(arr, FirstChild(root, size), size - 1)
       /\ IsMaxHeap(arr, SecondChild(root), size - 2)

\* C15: if both child subtrees of the tree rooted at root are max-heaps when
\* RebalanceSingleHeap(root, order, comp) is called, then on return the whole
\* tree rooted at the original position is a max-heap, holds the values it
\* held, and no position outside that tree has been modified.
C15_RebalanceMakesHeap ==
    (RebalanceReturned /\ ChildrenAreHeaps(input, callRoot, callSize)) =>
        /\ IsMaxHeap(a, callRoot, callSize)
        /\ IsPermutation(input, a)
        /\ \A p \in 0..(Len(a) - 1) :
                p \notin TreePositions(callRoot, callSize) => At(a, p) = At(input, p)

C15_Witness ==
    /\ RebalanceReturned /\ ChildrenAreHeaps(input, callRoot, callSize)
    /\ callSize = 3
    /\ \A p \in TreePositions(callRoot, callSize) \ {callRoot} :
            Comp(At(input, callRoot), At(input, p))
    /\ At(a, FirstChild(FirstChild(callRoot, 3), 2)) = At(input, callRoot)

\* The child with the larger value; when the two compare equal, the second
\* child if tieToSecond and the first child otherwise.
ChildChosen(arr, root, size, tieToSecond) ==
    LET first == FirstChild(root, size)
        second == SecondChild(root)
    IN  IF Comp(At(arr, first), At(arr, second)) THEN second
        ELSE IF Comp(At(arr, second), At(arr, first)) THEN first
        ELSE IF tieToSecond THEN second ELSE first

\* LargerChild returns the child chosen; and when RebalanceSingleHeap exchanges
\* the root with a child it is the child chosen: the root takes that child's
\* value and the subtree of the other child is left as it was.
TieBreak(tieToSecond) ==
    LET first == FirstChild(callRoot, callSize)
        second == SecondChild(callRoot)
        chosen == ChildChosen(input, callRoot, callSize, tieToSecond)
        otherPositions == IF chosen = first THEN TreePositions(second, callSize - 2)
                          ELSE TreePositions(first, callSize - 1)
    IN  /\ (alg = "LargerChild" /\ pc = "done") => itr = chosen
        /\ (RebalanceReturned /\ callSize > 1
                /\ Comp(At(input, callRoot), At(input, chosen))) =>
                /\ At(a, callRoot) = At(input, chosen)
                /\ \A p \in otherPositions : At(a, p) = At(input, p)

\* C19 (as stated): LargerChild returns the position of the child with the
\* larger value and, when the two children compare equal, the second child;
\* RebalanceSingleHeap picks the child to exchange with by the same tie-break.
C19_TiePrefersSecondChild == TieBreak(TRUE)

\* C19 (amended): the same, but when the two children compare equal it is the
\* first child that LargerChild returns and RebalanceSingleHeap exchanges with.
C19_TiePrefersFirstChild == TieBreak(FALSE)

C19_Witness ==
    /\ alg = "LargerChild" /\ pc = "done" /\ callSize = 3
    /\ At(input, FirstChild(callRoot, callSize)) = At(input, SecondChild(callRoot))
    /\ itr = FirstChild(callRoot, callSize)

\* C20 (as stated): for a range of length 13 the forest right after the first
\* loop is a single tree of order 6 that covers the whole range.
C20_Length13SingleTreeOfOrder6 ==
    (BuildFinished /\ Len(a) = 13) =>
        Forest(shape, Len(a)) = {[root |-> 12, order |-> 6]}

\* C20 (amended): for a range of length 13 the forest right after the first
\* loop has three trees, of orders 4, 2 and 1 (9 + 3 + 1 elements), each a
\* max-heap, covering the whole range; 13 is no Leonardo number (L(6) = 25),
\* and the forest is a single tree exactly when the length is one.
C20_Length13ThreeTrees ==
    /\ (BuildFinished /\ Len(a) = 13) =>
            /\ Forest(shape, Len(a)) = {[root |-> 8, order |-> 4],
                                        [root |-> 11, order |-> 2],
                                        [root |-> 12, order |-> 1]}
            /\ ShapeSize(shape) = 13
            /\ \A t \in Forest(shape, Len(a)) : IsMaxHeap(a, t.root, t.order)
            /\ L(6) = 25
    /\ BuildFinished =>
            (Cardinality(Orders(shape)) = 1 <=>
                \E k \in 0..(kNumLeonardoNumbers - 3) : Len(a) = L(k))

C20_Witness ==
    /\ BuildFinished /\ input = Scrambled13 /\ Orders(shape) = {4, 2, 1}
    /\ a # input

---------------------------------------------------------------------------
(* Claims about BinaryQuicksort. *)

BinaryQuicksortDone == alg = "BinaryQuicksort" /\ pc = "done"

\* C4: BinaryQuicksort leaves the range a permutation of the input in ascending
\* numeric order; with a signed element type every negative value comes before
\* every non-negative one.
C4_BinaryQuicksortSorts ==
    BinaryQuicksortDone =>
        /\ IsPermutation(input, a)
        /\ \A i \in 1..(Len(a) - 1) :
                NumericValue(a[i], isSigned) <= NumericValue(a[i + 1], isSigned)
        /\ isSigned =>
                \A i, j \in 1..Len(a) :
                    (NumericValue(a[i], TRUE) < 0 /\ NumericValue(a[j], TRUE) >= 0) => i < j

C4_Witness ==
    /\ BinaryQuicksortDone /\ isSigned /\ Len(a) = MaxLenBQ /\ a # input
    /\ NumericValue(input[1], TRUE) >= 0
    /\ NumericValue(input[Len(input)], TRUE) < 0
    /\ NumericValue(a[1], TRUE) < 0
    /\ NumericValue(a[Len(a)], TRUE) > 0

---------------------------------------------------------------------------
(* Claims about CartesianTreeSort. *)

CartesianTreeSortDone == alg = "CartesianTreeSort" /\ pc = "done"

\* C5: CartesianTreeSort overwrites the range with a permutation of its values
\* in non-descending order; the queue never runs empty before the range is
\* filled; the empty range returns with nothing done.
C5_CartesianTreeSortSorts ==
    /\ CartesianTreeSortDone => IsPermutation(input, a) /\ IsSorted(a)
    /\ (alg = "CartesianTreeSort" /\ pc = "output" /\ itr # Len(a)) => pq # {}
    /\ (CartesianTreeSortDone /\ Len(input) = 0) =>
            a = input /\ tree = NoTree /\ pq = {}

C5_Witness ==
    /\ CartesianTreeSortDone /\ input = <<3, 1, 2, 3, 1>> /\ a = <<1, 1, 2, 3, 3>>
    /\ pq = {}

\* The nodes of the subtree rooted at node, left subtree first, then the node,
\* then the right subtree; depth bounds the descent, so that links that do not
\* form a tree still give a (longer or shorter) sequence.
RECURSIVE Inorder(_, _, _)
Inorder(t, node, depth) ==
    IF node = NULL \/ depth = 0 THEN <<>>
    ELSE Inorder(t, t.left[node], depth - 1) \o <<node>>
             \o Inorder(t, t.right[node], depth - 1)

\* The nodes that have the given node as their left or right child.
ParentsOf(t, node) ==
    {p \in DOMAIN t.left : t.left[p] = node \/ t.right[p] = node}

TreeBuilt == alg = "CartesianTreeSort" /\ pc \in {"output", "done"} /\ Len(input) > 0

\* C21: the tree MakeCartesianTree returns has exactly one node per element of
\* the range (every node is reached from the root, once), no node's value is
\* less than its parent's, and its inorder traversal gives the values in the
\* order of the range.
C21_MakeCartesianTreeIsCartesian ==
    TreeBuilt =>
        LET n == Len(input)
            walk == Inorder(tree, tree.root, n + 1)
        IN  /\ DOMAIN tree.left = 1..n /\ DOMAIN tree.right = 1..n
            /\ walk = [i \in 1..n |-> i]
            /\ [i \in 1..n |-> input[walk[i]]] = input
            /\ ParentsOf(tree, tree.root) = {}
            /\ \A c \in (1..n) \ {tree.root} :
                    /\ Cardinality(ParentsOf(tree, c)) = 1
                    /\ \A p \in ParentsOf(tree, c) : ~Comp(input[c], input[p])
            /\ \A c \in 1..n : tree.left[c] = NULL \/ tree.left[c] # tree.right[c]

C21_Witness ==
    /\ alg = "CartesianTreeSort" /\ pc = "output" /\ itr = 0
    /\ input = <<2, 3, 1, 3, 2>>
    /\ tree.root = 3 /\ tree.left[3] = 1 /\ tree.right[3] = 5
    /\ tree.right[1] = 2 /\ tree.left[5] = 4

\* The queue holds one node when an iteration of the output loop starts and
\* never more than one; an iteration's pushes all come after its pop, so the
\* most the queue holds during an iteration is what it holds when it ends.
QueueHoldsOneNode ==
    /\ Cardinality(pq) <= 1
    /\ (pc = "output" /\ itr # Len(a)) => Cardinality(pq) = 1

\* C22: when the range given to CartesianTreeSort is in sorted order, the
\* priority queue holds exactly one node at the start of every iteration of the
\* output loop and never more than one node.
C22_SortedInputQueueHoldsOneNode ==
    (alg = "CartesianTreeSort" /\ IsSorted(input)) => QueueHoldsOneNode

===========================================================================
